---- MODULE Spec2Model ----
(***************************************************************************)
(* Model of the article backend (Hono worker over a D1/SQLite store):      *)
(* the public read routes, the admin create/update/delete routes, the      *)
(* excerpt derivation and the published_at bookkeeping.                    *)
(*                                                                         *)
(* Text whose characters matter (content, excerpt, query parameters) is a  *)
(* sequence of one-character strings.  Other text values are TLA+ strings. *)
(* JavaScript `undefined` and SQL/JSON `null` are the markers below.       *)
(* Timestamps are readings of an integer clock; NullTime is a NULL         *)
(* timestamp column.                                                       *)
(***************************************************************************)
EXTENDS Integers, Sequences, FiniteSets, TLC

VARIABLES articles, nextId, now, pc, loc, resp, clearedAt, env

vars == <<articles, nextId, now, pc, loc, resp, clearedAt, env>>

---------------------------------------------------------------------------
(* Bounds of the model *)

\* the clock stops here: at most MaxTime requests read the clock
MaxTime == 4

\* the same for the interleaved requests of two clients
MaxConcTime == 4

---------------------------------------------------------------------------
(* Values *)

Undefined == "<undefined>"
Null == "<null>"
UndefinedText == <<"<undefined>">>
NullText == <<"<null>">>
NullTime == 0

Procs == {1, 2}
Slugs == {"a", "b"}
Ids == 1..MaxTime

Min(S) == CHOOSE x \in S : \A y \in S : x <= y
Max(S) == CHOOSE x \in S : \A y \in S : x >= y

---------------------------------------------------------------------------
(* createExcerpt *)

ExcerptLen == 150
MarkdownChars == {"#", "*", "-", ">", "[", "]", "\n"}
Whitespace == {" ", "\t", "\r", "\n"}
Ellipsis == <<".", ".", ".">>

IsMarkdownChar(ch) == ch \in MarkdownChars

\* content.replace(/[\#\*\-\>\[\]\n]/g, '')
StripMarkdown(text) == SelectSeq(text, LAMBDA ch : ~IsMarkdownChar(ch))

\* String.prototype.trim
Trim(text) ==
  LET keep == {i \in 1..Len(text) : text[i] \notin Whitespace}
  IN  IF keep = {} THEN <<>> ELSE SubSeq(text, Min(keep), Max(keep))

\* String.prototype.substring(0, n)
Substring0(text, n) == SubSeq(text, 1, IF Len(text) < n THEN Len(text) ELSE n)

\* an excerpt cut to its length without the truncation mark
createExcerptNoEllipsis(content) ==
  IF content = UndefinedText \/ content = NullText \/ content = <<>>
  THEN NullText
  ELSE Substring0(Trim(StripMarkdown(content)), ExcerptLen)

createExcerpt(content) ==
  IF content = UndefinedText \/ content = NullText \/ content = <<>>
  THEN NullText
  ELSE LET cleanText == Trim(StripMarkdown(content))
       IN  Substring0(cleanText, ExcerptLen)
             \o (IF Len(cleanText) > ExcerptLen THEN Ellipsis ELSE <<>>)

---------------------------------------------------------------------------
(* JavaScript helpers *)

\* the falsy values a body field can take here
Falsy(v) == v = Undefined \/ v = Null \/ v = ""
FalsyText(t) == t = UndefinedText \/ t = NullText \/ t = <<>>

\* v || d
OrElse(v, d) == IF Falsy(v) THEN d ELSE v

\* String.prototype.toLowerCase on the status values of the model
ToLowerCase(s) ==
  CASE s = "Published" -> "published"
    [] s = "PUBLISHED" -> "published"
    [] s = "Draft" -> "draft"
    [] OTHER -> s

Digits == {"0", "1", "2", "3", "4", "5", "6", "7", "8", "9"}

DigitValue(ch) ==
  CASE ch = "0" -> 0 [] ch = "1" -> 1 [] ch = "2" -> 2 [] ch = "3" -> 3
    [] ch = "4" -> 4 [] ch = "5" -> 5 [] ch = "6" -> 6 [] ch = "7" -> 7
    [] ch = "8" -> 8 [] ch = "9" -> 9

NaN == [nan |-> TRUE, val |-> 0]

RECURSIVE ParseDigits(_, _, _)
ParseDigits(text, i, acc) ==
  IF i > Len(text) \/ text[i] \notin Digits
  THEN acc
  ELSE ParseDigits(text, i + 1, acc * 10 + DigitValue(text[i]))

\* parseInt(string | null): leading whitespace, a sign, then the digit run
ParseInt(text) ==
  IF text = NullText THEN NaN
  ELSE LET keep == {i \in 1..Len(text) : text[i] \notin Whitespace}
           t == IF keep = {} THEN <<>> ELSE SubSeq(text, Min(keep), Len(text))
           signed == Len(t) > 0 /\ t[1] \in {"-", "+"}
           start == IF signed THEN 2 ELSE 1
       IN  IF start > Len(t) \/ t[start] \notin Digits
           THEN NaN
           ELSE [nan |-> FALSE,
                 val |-> (IF signed /\ t[1] = "-" THEN -1 ELSE 1)
                           * ParseDigits(t, start, 0)]

\* parseInt(x) || d : NaN and 0 are falsy
ParseIntOr(text, d) ==
  LET n == ParseInt(text) IN IF n.nan \/ n.val = 0 THEN d ELSE n.val

\* Math.ceil(a / b), b # 0
MathCeilDiv(a, b) ==
  IF b > 0 THEN -((-a) \div b) ELSE -(a \div (-b))

---------------------------------------------------------------------------
(* The articles table (db/seed_settings.sql) and the statements run on it *)

UniqueError == "UNIQUE constraint failed: articles.slug"
NoError == ""

\* INSERT without the UNIQUE(slug) constraint
DbInsertNoUnique(table, id, v) ==
  [error |-> NoError,
   table |-> table \cup {[id |-> id, slug |-> v.slug, title |-> v.title,
       excerpt |-> v.excerpt, content |-> v.content,
       featured_image |-> v.featured_image, category |-> v.category,
       author |-> v.author, status |-> v.status,
       created_at |-> v.created_at, updated_at |-> v.updated_at,
       published_at |-> v.published_at, meta_title |-> v.meta_title,
       meta_description |-> v.meta_description]}]

\* INSERT INTO articles (...) VALUES (...), id INTEGER PRIMARY KEY
\* AUTOINCREMENT, slug TEXT UNIQUE NOT NULL
DbInsert(table, id, v) ==
  IF \E r \in table : r.slug = v.slug
  THEN [error |-> UniqueError, table |-> table]
  ELSE [error |-> NoError,
        table |-> table \cup {[id |-> id, slug |-> v.slug, title |-> v.title,
            excerpt |-> v.excerpt, content |-> v.content,
            featured_image |-> v.featured_image, category |-> v.category,
            author |-> v.author, status |-> v.status,
            created_at |-> v.created_at, updated_at |-> v.updated_at,
            published_at |-> v.published_at, meta_title |-> v.meta_title,
            meta_description |-> v.meta_description]}]

\* SELECT status, published_at FROM articles WHERE slug = ?  (.first())
DbSelectStatus(table, slug) ==
  {[status |-> r.status, published_at |-> r.published_at] :
     r \in {x \in table : x.slug = slug}}

Col(r, sets, c) == IF c \in DOMAIN sets THEN sets[c] ELSE r[c]

\* one row after UPDATE articles SET <sets>, updated_at = CURRENT_TIMESTAMP
UpdatedRow(r, sets, ts) ==
  [id |-> r.id, slug |-> r.slug, title |-> Col(r, sets, "title"),
   excerpt |-> Col(r, sets, "excerpt"), content |-> Col(r, sets, "content"),
   featured_image |-> Col(r, sets, "featured_image"),
   category |-> Col(r, sets, "category"), author |-> Col(r, sets, "author"),
   status |-> Col(r, sets, "status"), created_at |-> r.created_at,
   updated_at |-> ts, published_at |-> Col(r, sets, "published_at"),
   meta_title |-> Col(r, sets, "meta_title"),
   meta_description |-> Col(r, sets, "meta_description")]

\* an UPDATE that reports one changed row whatever it matched
DbUpdateOneChange(table, slug, sets, ts) ==
  [changes |-> 1,
   table |-> {IF r.slug = slug THEN UpdatedRow(r, sets, ts) ELSE r : r \in table}]

\* UPDATE articles SET ... WHERE slug = ?
DbUpdate(table, slug, sets, ts) ==
  [changes |-> Cardinality({r \in table : r.slug = slug}),
   table |-> {IF r.slug = slug THEN UpdatedRow(r, sets, ts) ELSE r : r \in table}]

\* DELETE without its WHERE clause
DbDeleteAll(table, slug) ==
  [changes |-> Cardinality(table), table |-> {}]

\* DELETE FROM articles WHERE slug = ?
DbDelete(table, slug) ==
  [changes |-> Cardinality({r \in table : r.slug = slug}),
   table |-> {r \in table : r.slug # slug}]

\* WHERE status = 'published' [AND category = ?]
PublishedRows(table, category) ==
  {r \in table : r.status = "published"
                 /\ (Falsy(category) \/ r.category = category)}

\* the lookup without AND status = 'published'
DbSelectBySlug(table, slug) == {r \in table : r.slug = slug}

\* SELECT * FROM articles WHERE slug = ? AND status = 'published' LIMIT 1
DbSelectPublishedBySlug(table, slug) ==
  {r \in table : r.slug = slug /\ r.status = "published"}

\* the columns the list query selects
ListColumns(r) ==
  [id |-> r.id, slug |-> r.slug, title |-> r.title, excerpt |-> r.excerpt,
   featured_image |-> r.featured_image, category |-> r.category,
   author |-> r.author, published_at |-> r.published_at,
   created_at |-> r.created_at, updated_at |-> r.updated_at]

\* ORDER BY published_at DESC: every order the engine may give to ties
OrderedByPublishedAt(rows) ==
  {f \in [1..Cardinality(rows) -> rows] :
     /\ \A i, j \in DOMAIN f : i # j => f[i] # f[j]
     /\ \A i, j \in DOMAIN f : i < j => f[i].published_at >= f[j].published_at}

\* LIMIT ? OFFSET ? (SQLite: a negative LIMIT is no limit, a negative OFFSET is 0)
LimitOffset(rowSeq, limit, offset) ==
  LET off == IF offset < 0 THEN 0 ELSE offset
      last == IF limit < 0 \/ off + limit > Len(rowSeq)
              THEN Len(rowSeq) ELSE off + limit
  IN  IF off >= Len(rowSeq) THEN <<>> ELSE SubSeq(rowSeq, off + 1, last)

\* SELECT COUNT(id) as total FROM articles WHERE status = 'published' ...
DbCountPublished(table, category) == Cardinality(PublishedRows(table, category))

\* rows of the settings table (db/seed_settings.sql)
SeedSettings ==
  << <<"site.title", "WebApp Pro">>,
     <<"site.language", "id">>,
     <<"posts.per_page", "10">> >>

---------------------------------------------------------------------------
(* Requests *)

Content1 == <<"#", " ", "a", "\n">>
Content2 == <<"b", "-", "c", " ">>

Body(slug, title, content, status, other, excerpt) ==
  [slug |-> slug, title |-> title, content |-> content, status |-> status,
   featured_image |-> other, category |-> other, author |-> other,
   meta_title |-> other, meta_description |-> other, excerpt |-> excerpt]

StatusInputs == {Undefined, "draft", "published", "Published"}

\* values of the X-API-Key header
Headers == {Undefined, "secret", "wrong"}

\* JSON bodies sent to POST /api/admin/articles
PostBodies ==
  {Body("a", "T1", Content1, st, Undefined, UndefinedText) : st \in StatusInputs}
  \cup {Body("b", "T1", Content1, st, Undefined, UndefinedText) :
          st \in {Undefined}}
  \cup {Body("a", "T1", Content1, Undefined, "x", <<"z">>),
        Body(Undefined, "T1", Content1, Undefined, Undefined, UndefinedText),
        Body("a", Undefined, Content1, Undefined, Undefined, UndefinedText),
        Body("a", "T1", UndefinedText, Undefined, Undefined, UndefinedText)}

\* JSON bodies sent to PUT /api/admin/articles
PutBodies ==
  {Body("a", Undefined, UndefinedText, st, Undefined, UndefinedText) :
     st \in StatusInputs}
  \cup {Body("a", "T2", UndefinedText, Undefined, Undefined, UndefinedText),
        Body("a", Undefined, Content2, Undefined, Undefined, UndefinedText),
        Body("a", Undefined, <<>>, Undefined, Undefined, UndefinedText),
        Body("a", "T2", Content2, "Published", Undefined, UndefinedText),
        Body("a", Undefined, UndefinedText, Undefined, "y", UndefinedText),
        Body("a", Undefined, UndefinedText, Undefined, Undefined, <<"z">>),
        Body("b", "T2", UndefinedText, Undefined, Undefined, UndefinedText),
        Body(Undefined, "T2", UndefinedText, Undefined, Undefined, UndefinedText)}

\* JSON bodies sent to DELETE /api/admin/articles
DeleteBodies == {[slug |-> s] : s \in Slugs \cup {Undefined}}

\* query strings of GET /api/articles
Query(page, size, category) == [page |-> page, size |-> size, category |-> category]

Queries ==
  {Query(NullText, NullText, Null),
   Query(<<"2">>, <<"1">>, Null),
   Query(<<"-", "1">>, <<"0">>, "x")}

---------------------------------------------------------------------------
(* Responses *)

NoPagination == [page |-> 0, size |-> 0, total_items |-> 0, total_pages |-> 0,
                 category |-> Null]

\* c.json(envelope, code)
Json(op, code, slug, data, pagination) ==
  [op |-> op, code |-> code, success |-> code = 200, envelope |-> TRUE,
   slug |-> slug, data |-> data, pagination |-> pagination]

\* the handler threw: the framework answers for it, not the handler
Uncaught(op) ==
  [op |-> op, code |-> 500, success |-> FALSE, envelope |-> FALSE,
   slug |-> Undefined, data |-> <<>>, pagination |-> NoPagination]

\* the step answered no request
NoResponse == Json("none", 0, Undefined, <<>>, NoPagination)

NoLoc == [slug |-> Undefined]

---------------------------------------------------------------------------
(* authMiddleware *)

\* a middleware comparing the header with the secret and nothing else
AuthPassesKeyOnly(header) == header = env.WEBAPP_APIKEY

\* the middleware calls next()
AuthPasses(header) == ~(Falsy(header) \/ header # env.WEBAPP_APIKEY)

\* adminArticles.use(authMiddleware): 401 for POST, PUT and DELETE alike
Unauthorized(p, op, header) ==
  /\ pc[p] = "idle"
  /\ ~AuthPasses(header)
  /\ resp' = Json(op, 401, Undefined, <<>>, NoPagination)
  /\ UNCHANGED <<articles, nextId, now, pc, loc, clearedAt, env>>

---------------------------------------------------------------------------
(* POST /api/admin/articles *)

\* published_at of a new article
PostPublishedAt(status, t) ==
  IF ~Falsy(status) /\ ToLowerCase(status) = "published" THEN t ELSE NullTime

\* the values bound to the INSERT
PostValues(body, t) ==
  [slug |-> body.slug, title |-> body.title,
   excerpt |-> createExcerpt(body.content), content |-> body.content,
   featured_image |-> OrElse(body.featured_image, Null),
   category |-> OrElse(body.category, Null),
   author |-> OrElse(body.author, "Admin"),
   status |-> OrElse(body.status, "draft"),
   published_at |-> PostPublishedAt(body.status, t),
   meta_title |-> OrElse(body.meta_title, Null),
   meta_description |-> OrElse(body.meta_description, Null),
   created_at |-> t, updated_at |-> t]

PostInvalid(p, header, body) ==
  /\ pc[p] = "idle"
  /\ AuthPasses(header)
  /\ Falsy(body.slug) \/ Falsy(body.title) \/ FalsyText(body.content)
  /\ resp' = Json("post", 400, Undefined, <<>>, NoPagination)
  /\ UNCHANGED <<articles, nextId, now, pc, loc, clearedAt, env>>

Post(p, header, body) ==
  /\ pc[p] = "idle"
  /\ AuthPasses(header)
  /\ ~(Falsy(body.slug) \/ Falsy(body.title) \/ FalsyText(body.content))
  /\ now' = now + 1
  /\ LET res == DbInsert(articles, nextId, PostValues(body, now'))
     IN  /\ articles' = res.table
         /\ nextId' = IF res.error = NoError THEN nextId + 1 ELSE nextId
         /\ resp' = IF res.error = NoError
                    THEN Json("post", 200, body.slug, <<>>, NoPagination)
                    ELSE IF res.error = UniqueError
                    THEN Json("post", 409, body.slug, <<>>, NoPagination)
                    ELSE Json("post", 500, Undefined, <<>>, NoPagination)
  /\ UNCHANGED <<pc, loc, clearedAt, env>>

---------------------------------------------------------------------------
(* PUT /api/admin/articles *)

\* newStatus = (status && status.toLowerCase()) || existingArticle.status
NewStatus(status, existing) ==
  IF ~Falsy(status) THEN ToLowerCase(status) ELSE existing.status

\* the published_at logic without the branch that resets the date
PublishedAtValueKeep(newStatus, existing, t) ==
  IF newStatus = "published" /\ existing.published_at = NullTime THEN t
  ELSE existing.published_at

\* the published_at logic of the update handler
PublishedAtValue(newStatus, existing, t) ==
  IF newStatus = "published" /\ existing.published_at = NullTime THEN t
  ELSE IF newStatus # "published" /\ existing.published_at # NullTime
  THEN NullTime
  ELSE existing.published_at

\* setClauses of an update that writes content and leaves the excerpt alone
SetColumnsStaleExcerpt(body) ==
  {"published_at", "status"}
    \cup (IF body.content # UndefinedText THEN {"content"} ELSE {})
    \cup {k \in {"title", "featured_image", "category", "author",
                 "meta_title", "meta_description"} : body[k] # Undefined}

\* the columns of setClauses before updated_at is pushed
SetColumns(body) ==
  {"published_at", "status"}
    \cup (IF body.content # UndefinedText THEN {"excerpt", "content"} ELSE {})
    \cup {k \in {"title", "featured_image", "category", "author",
                 "meta_title", "meta_description"} : body[k] # Undefined}

\* setClauses with updateParams: column -> bound value
SetClauses(body, existing, t) ==
  [k \in SetColumns(body) |->
     CASE k = "published_at" ->
            PublishedAtValue(NewStatus(body.status, existing), existing, t)
       [] k = "status" -> NewStatus(body.status, existing)
       [] k = "excerpt" -> createExcerpt(body.content)
       [] OTHER -> body[k]]

PutNoSlug(p, header, body) ==
  /\ pc[p] = "idle"
  /\ AuthPasses(header)
  /\ Falsy(body.slug)
  /\ resp' = Json("put", 400, Undefined, <<>>, NoPagination)
  /\ UNCHANGED <<articles, nextId, now, pc, loc, clearedAt, env>>

PutNotFound(p, header, body) ==
  /\ pc[p] = "idle"
  /\ AuthPasses(header)
  /\ ~Falsy(body.slug)
  /\ DbSelectStatus(articles, body.slug) = {}
  /\ resp' = Json("put", 404, Undefined, <<>>, NoPagination)
  /\ UNCHANGED <<articles, nextId, now, pc, loc, clearedAt, env>>

\* from the request to the point where the UPDATE is awaited
PutRead(p, header, body) ==
  /\ pc[p] = "idle"
  /\ AuthPasses(header)
  /\ ~Falsy(body.slug)
  /\ \E existing \in DbSelectStatus(articles, body.slug) :
       LET sets == SetClauses(body, existing, now + 1)
       IN  /\ now' = now + 1
           /\ IF Cardinality(DOMAIN sets) <= 1
              THEN /\ resp' = Json("put", 400, Undefined, <<>>, NoPagination)
                   /\ UNCHANGED <<pc, loc>>
              ELSE /\ pc' = [pc EXCEPT ![p] = "put_write"]
                   /\ loc' = [loc EXCEPT ![p] =
                                [slug |-> body.slug, body |-> body,
                                 existing |-> existing, sets |-> sets]]
                   /\ resp' = NoResponse
  /\ UNCHANGED <<articles, nextId, clearedAt, env>>

\* the publish times an UPDATE has just cleared
Cleared(before, after) ==
  [i \in Ids |->
     IF \E r \in before : r.id = i /\ r.published_at # NullTime
          /\ \E q \in after : q.id = i /\ q.published_at = NullTime
     THEN Max({r.published_at : r \in {x \in before : x.id = i}})
     ELSE clearedAt[i]]

\* the UPDATE and the response
PutWrite(p) ==
  /\ pc[p] = "put_write"
  /\ LET res == DbUpdate(articles, loc[p].slug, loc[p].sets, now)
     IN  /\ articles' = res.table
         /\ clearedAt' = Cleared(articles, res.table)
         /\ resp' = IF res.changes = 0
                    THEN Json("put", 404, Undefined, <<>>, NoPagination)
                    ELSE Json("put", 200, loc[p].slug, <<>>, NoPagination)
  /\ pc' = [pc EXCEPT ![p] = "idle"]
  /\ loc' = [loc EXCEPT ![p] = NoLoc]
  /\ UNCHANGED <<nextId, now, env>>

---------------------------------------------------------------------------
(* DELETE /api/admin/articles *)

DeleteNoSlug(p, header, body) ==
  /\ pc[p] = "idle"
  /\ AuthPasses(header)
  /\ Falsy(body.slug)
  /\ resp' = Json("delete", 400, Undefined, <<>>, NoPagination)
  /\ UNCHANGED <<articles, nextId, now, pc, loc, clearedAt, env>>

Delete(p, header, body) ==
  /\ pc[p] = "idle"
  /\ AuthPasses(header)
  /\ ~Falsy(body.slug)
  /\ LET res == DbDelete(articles, body.slug)
     IN  /\ articles' = res.table
         /\ resp' = IF res.changes = 0
                    THEN Json("delete", 404, Undefined, <<>>, NoPagination)
                    ELSE Json("delete", 200, body.slug, <<>>, NoPagination)
  /\ UNCHANGED <<nextId, now, pc, loc, clearedAt, env>>

---------------------------------------------------------------------------
(* GET /api/articles/:slug *)

Get(p, slug) ==
  /\ pc[p] = "idle"
  /\ LET results == DbSelectPublishedBySlug(articles, slug)
     IN  IF results = {}
         THEN resp' = Json("get", 404, Undefined, <<>>, NoPagination)
         ELSE \E r \in results :
                resp' = Json("get", 200, Undefined, <<r>>, NoPagination)
  /\ UNCHANGED <<articles, nextId, now, pc, loc, clearedAt, env>>

---------------------------------------------------------------------------
(* GET /api/articles *)

\* page, size, category and offset as the handler computes them
ListParams(q) ==
  LET page == ParseIntOr(q.page, 1)
      size == ParseIntOr(q.size, 10)
  IN  [page |-> page, size |-> size, category |-> q.category,
       offset |-> (page - 1) * size]

\* the first query: the page of rows
ListQuery(p, q) ==
  /\ pc[p] = "idle"
  /\ LET par == ListParams(q)
     IN  \E ord \in OrderedByPublishedAt(PublishedRows(articles, par.category)) :
           /\ pc' = [pc EXCEPT ![p] = "list_count"]
           /\ loc' = [loc EXCEPT ![p] =
                [slug |-> Undefined, par |-> par,
                 results |-> LimitOffset([i \in DOMAIN ord |-> ListColumns(ord[i])],
                                         par.size, par.offset)]]
  /\ resp' = NoResponse
  /\ UNCHANGED <<articles, nextId, now, clearedAt, env>>

\* the second query (the count) and the response
ListCount(p) ==
  /\ pc[p] = "list_count"
  /\ LET par == loc[p].par
         totalArticles == DbCountPublished(articles, par.category)
     IN  resp' = Json("list", 200, Undefined, loc[p].results,
                      [page |-> par.page, size |-> par.size,
                       total_items |-> totalArticles,
                       total_pages |-> MathCeilDiv(totalArticles, par.size),
                       category |-> OrElse(par.category, Null)])
  /\ pc' = [pc EXCEPT ![p] = "idle"]
  /\ loc' = [loc EXCEPT ![p] = NoLoc]
  /\ UNCHANGED <<articles, nextId, now, clearedAt, env>>

---------------------------------------------------------------------------
(* GET /api/settings *)

RECURSIVE SettingsObject(_)
\* results.reduce((acc, item) => { acc[item.key] = item.value; return acc }, {})
SettingsObject(rows) ==
  IF rows = <<>> THEN <<>>
  ELSE LET acc == SettingsObject(SubSeq(rows, 1, Len(rows) - 1))
           item == rows[Len(rows)]
       IN  [k \in DOMAIN acc \cup {item[1]} |->
              IF k = item[1] THEN item[2] ELSE acc[k]]

Settings(p) ==
  /\ pc[p] = "idle"
  /\ resp' = Json("settings", 200, Undefined, SettingsObject(SeedSettings),
                  NoPagination)
  /\ UNCHANGED <<articles, nextId, now, pc, loc, clearedAt, env>>

---------------------------------------------------------------------------
(* Storage failures: the awaited statement rejects *)

StorageError == "D1_ERROR: storage unavailable"

\* the INSERT rejects for a reason other than the UNIQUE constraint
PostFail(p, header, body) ==
  /\ pc[p] = "idle"
  /\ AuthPasses(header)
  /\ ~(Falsy(body.slug) \/ Falsy(body.title) \/ FalsyText(body.content))
  /\ now' = now + 1
  /\ resp' = IF StorageError = UniqueError
             THEN Json("post", 409, body.slug, <<>>, NoPagination)
             ELSE Json("post", 500, Undefined, <<>>, NoPagination)
  /\ UNCHANGED <<articles, nextId, pc, loc, clearedAt, env>>

\* the SELECT of the existing article rejects: it is awaited outside try/catch
PutReadFail(p, header, body) ==
  /\ pc[p] = "idle"
  /\ AuthPasses(header)
  /\ ~Falsy(body.slug)
  /\ resp' = Uncaught("put")
  /\ UNCHANGED <<articles, nextId, now, pc, loc, clearedAt, env>>

\* the UPDATE rejects
PutWriteFail(p) ==
  /\ pc[p] = "put_write"
  /\ resp' = Json("put", 500, Undefined, <<>>, NoPagination)
  /\ pc' = [pc EXCEPT ![p] = "idle"]
  /\ loc' = [loc EXCEPT ![p] = NoLoc]
  /\ UNCHANGED <<articles, nextId, now, clearedAt, env>>

\* the DELETE rejects
DeleteFail(p, header, body) ==
  /\ pc[p] = "idle"
  /\ AuthPasses(header)
  /\ ~Falsy(body.slug)
  /\ resp' = Json("delete", 500, Undefined, <<>>, NoPagination)
  /\ UNCHANGED <<articles, nextId, now, pc, loc, clearedAt, env>>

\* the SELECT by slug rejects
GetFail(p, slug) ==
  /\ pc[p] = "idle"
  /\ resp' = Json("get", 500, Undefined, <<>>, NoPagination)
  /\ UNCHANGED <<articles, nextId, now, pc, loc, clearedAt, env>>

\* the page query rejects
ListQueryFail(p, q) ==
  /\ pc[p] = "idle"
  /\ resp' = Json("list", 500, Undefined, <<>>, NoPagination)
  /\ UNCHANGED <<articles, nextId, now, pc, loc, clearedAt, env>>

\* the count query rejects
ListCountFail(p) ==
  /\ pc[p] = "list_count"
  /\ resp' = Json("list", 500, Undefined, <<>>, NoPagination)
  /\ pc' = [pc EXCEPT ![p] = "idle"]
  /\ loc' = [loc EXCEPT ![p] = NoLoc]
  /\ UNCHANGED <<articles, nextId, now, clearedAt, env>>

\* the SELECT of the settings rejects
SettingsFail(p) ==
  /\ pc[p] = "idle"
  /\ resp' = Json("settings", 500, Undefined, <<>>, NoPagination)
  /\ UNCHANGED <<articles, nextId, now, pc, loc, clearedAt, env>>

---------------------------------------------------------------------------
(* The system: requests handled one at a time, storage always answering *)

Init ==
  /\ articles = {}
  /\ nextId = 1
  /\ now = 0
  /\ pc = [p \in Procs |-> "idle"]
  /\ loc = [p \in Procs |-> NoLoc]
  /\ resp = NoResponse
  /\ clearedAt = [i \in Ids |-> NullTime]
  /\ env \in {[WEBAPP_APIKEY |-> k] : k \in {"secret", Undefined}}

Next ==
  \E p \in {1} :
    \/ \E op \in {"post", "put", "delete"}, h \in Headers : Unauthorized(p, op, h)
    \/ \E h \in Headers, body \in PostBodies : PostInvalid(p, h, body)
    \/ \E h \in Headers, body \in PostBodies : now < MaxTime /\ Post(p, h, body)
    \/ \E h \in Headers, body \in PutBodies : PutNoSlug(p, h, body)
    \/ \E h \in Headers, body \in PutBodies : PutNotFound(p, h, body)
    \/ \E h \in Headers, body \in PutBodies : now < MaxTime /\ PutRead(p, h, body)
    \/ PutWrite(p)
    \/ \E h \in Headers, body \in DeleteBodies : DeleteNoSlug(p, h, body)
    \/ \E h \in Headers, body \in DeleteBodies : Delete(p, h, body)
    \/ \E slug \in Slugs : Get(p, slug)
    \/ \E q \in Queries : ListQuery(p, q)
    \/ ListCount(p)
    \/ Settings(p)

Spec == Init /\ [][Next]_vars

---------------------------------------------------------------------------
(* The same system with a storage that may reject any statement *)

StorageFails ==
  \E p \in {1} :
    \/ \E h \in Headers, body \in PostBodies : now < MaxTime /\ PostFail(p, h, body)
    \/ \E h \in Headers, body \in PutBodies : PutReadFail(p, h, body)
    \/ PutWriteFail(p)
    \/ \E h \in Headers, body \in DeleteBodies : DeleteFail(p, h, body)
    \/ \E slug \in Slugs : GetFail(p, slug)
    \/ \E q \in Queries : ListQueryFail(p, q)
    \/ ListCountFail(p)
    \/ SettingsFail(p)

NextFail == Next \/ StorageFails

SpecFail == Init /\ [][NextFail]_vars

---------------------------------------------------------------------------
(* Admin requests of two clients, their storage calls interleaved *)

ConcPostBodies ==
  {Body("a", "T1", Content1, st, Undefined, e) :
     st \in {Undefined, "published"}, e \in {UndefinedText, <<"z">>}}

ConcPutBodies ==
  {Body("a", Undefined, UndefinedText, "draft", Undefined, UndefinedText),
   Body("a", Undefined, UndefinedText, "published", Undefined, UndefinedText),
   Body("a", "T2", UndefinedText, Undefined, Undefined, UndefinedText),
   Body("a", Undefined, Content2, Undefined, Undefined, <<"z">>),
   Body("a", Undefined, <<>>, Undefined, Undefined, UndefinedText),
   Body("a", Undefined, NullText, Undefined, Undefined, UndefinedText)}

ConcDeleteBodies == {[slug |-> "a"]}

InitConc ==
  /\ Init
  /\ env.WEBAPP_APIKEY = "secret"

NextConc ==
  \E p \in Procs, h \in {"secret"} :
    \/ \E body \in ConcPostBodies : now < MaxConcTime /\ Post(p, h, body)
    \/ \E body \in ConcPutBodies : PutNotFound(p, h, body)
    \/ \E body \in ConcPutBodies : now < MaxConcTime /\ PutRead(p, h, body)
    \/ PutWrite(p)
    \/ \E body \in ConcDeleteBodies : Delete(p, h, body)

SpecConc == InitConc /\ [][NextConc]_vars

---------------------------------------------------------------------------
(* One client creating and updating articles with long contents *)

MaxExcerptTime == 3

Rep(ch, n) == [i \in 1..n |-> ch]

\* contents around the excerpt length, with and without markdown characters
LongContents ==
  {Rep("x", ExcerptLen - 1),
   Rep("x", ExcerptLen),
   Rep("x", ExcerptLen + 1),
   <<"#", " ">> \o Rep("x", ExcerptLen) \o <<"\n", " ">>,
   <<">", " ">> \o Rep("x", ExcerptLen) \o <<"-", "y", "*", "\n">>,
   Rep("x", ExcerptLen - 1) \o <<" ", "[", "y", "]", "z">>,
   Rep("#", ExcerptLen + 3),
   <<" ", "\n">>}

ExcerptPostBodies ==
  {Body("a", "T1", c, Undefined, Undefined, UndefinedText) :
     c \in LongContents \cup {Content1}}

ExcerptPutBodies ==
  {Body("a", Undefined, c, Undefined, Undefined, UndefinedText) :
     c \in LongContents \cup {<<>>, NullText, UndefinedText}}

NextExcerpt ==
  \E p \in {1}, h \in {"secret"} :
    \/ \E body \in ExcerptPostBodies : now < MaxExcerptTime /\ Post(p, h, body)
    \/ \E body \in ExcerptPutBodies : now < MaxExcerptTime /\ PutRead(p, h, body)
    \/ PutWrite(p)

SpecExcerpt == InitConc /\ [][NextExcerpt]_vars

---------------------------------------------------------------------------
(* Properties *)

\* the recognized fields a PUT body carries
RecognizedFields(body) ==
  {k \in {"title", "featured_image", "category", "author", "status",
          "meta_title", "meta_description"} : body[k] # Undefined}
    \cup (IF body.content # UndefinedText THEN {"content"} ELSE {})

\* this step ends an update call of p
PutCompletes(p) == pc[p] = "put_write" /\ pc'[p] = "idle"

\* C1: every stored article has published_at present if and only if its
\* status, compared case-insensitively, is "published".
ClaimC1 ==
  \A r \in articles :
    (r.published_at # NullTime) <=> (ToLowerCase(r.status) = "published")

\* C2: an update call for an existing slug whose body carries no recognized
\* field answers 400 and leaves the table, updated_at included, unchanged.
ClaimC2 ==
  [][\A p \in Procs :
       (PutCompletes(p) /\ RecognizedFields(loc[p].body) = {})
         => (resp'.code = 400 /\ articles' = articles)]_vars

\* C3: in sequential update calls, publishing a draft stamps published_at with
\* the time of the call, a following update to "draft" clears it, and
\* publishing again stamps the time of the later call, which is later than
\* (so different from) the publish time that was cleared.
TheoremC3 ==
  [][\A p \in Procs :
       (PutCompletes(p) /\ resp'.code = 200) =>
         \A r \in articles : \A r2 \in articles' :
           (r.slug = loc[p].slug /\ r2.id = r.id) =>
             LET st == loc[p].body.status
                 publish == st # Undefined /\ ToLowerCase(st) = "published"
             IN  /\ (publish /\ r.status = "draft" /\ r.published_at = NullTime)
                      => (r2.status = "published" /\ r2.published_at = now)
                 /\ (st = "draft")
                      => (r2.status = "draft" /\ r2.published_at = NullTime)
                 /\ (publish /\ r.published_at = NullTime
                       /\ clearedAt[r.id] # NullTime)
                      => (r2.published_at = now
                          /\ r2.published_at > clearedAt[r.id])]_vars

\* a draft was published by an update, set back to draft and published again
WitnessC3 ==
  /\ resp.op = "put" /\ resp.code = 200
  /\ \E r \in articles :
       /\ r.status = "published"
       /\ r.created_at < clearedAt[r.id]
       /\ clearedAt[r.id] < r.published_at
       /\ r.published_at = now

\* C4: a successful update that supplies only title changes only the title and
\* updated_at of the target article, whatever its stored status, and changes
\* no other article.
ClaimC4 ==
  [][\A p \in Procs :
       (PutCompletes(p) /\ resp'.code = 200
          /\ RecognizedFields(loc[p].body) = {"title"}) =>
         /\ Cardinality(articles') = Cardinality(articles)
         /\ \A r \in articles : \E r2 \in articles' :
              r2 = IF r.slug = loc[p].slug
                   THEN [r EXCEPT !.title = loc[p].body.title,
                                  !.updated_at = r2.updated_at]
                   ELSE r]_vars

\* C5: whatever creates and updates ran, in whatever interleaving, each stored
\* excerpt is createExcerpt of the stored content (so no excerpt sent by a
\* caller is stored, and content never changes without its excerpt).
TheoremC5 == \A r \in articles : r.excerpt = createExcerpt(r.content)

\* an update rewrote content and excerpt (its body carried an excerpt of its
\* own) while another update of the content is between its read and its write
WitnessC5 ==
  /\ \E r \in articles : r.content = Content2 /\ r.excerpt = <<"b", "c">>
  /\ \E p \in Procs : pc[p] = "put_write" /\ loc[p].body.content = <<>>

\* C6: no two articles ever share a slug; a create whose slug is stored
\* answers 409 and leaves the table as it is, and a create whose slug is not
\* stored answers 200 and adds exactly one article with that slug.
TheoremC6 ==
  /\ [](\A r1, r2 \in articles : r1.slug = r2.slug => r1 = r2)
  /\ [][\A p \in Procs, body \in ConcPostBodies :
          Post(p, "secret", body) =>
            IF \E r \in articles : r.slug = body.slug
            THEN resp'.code = 409 /\ articles' = articles
            ELSE /\ resp'.code = 200
                 /\ \E r \in articles' :
                      r.slug = body.slug /\ r \notin articles
                        /\ articles' = articles \cup {r}]_vars

\* a create was refused with 409 and the one article of that slug is there
WitnessC6 ==
  /\ resp.op = "post" /\ resp.code = 409
  /\ Cardinality({r \in articles : r.slug = resp.slug}) = 1
  /\ nextId = 2

\* C7: a delete of a slug that is not stored answers 404 and leaves the table
\* unchanged; a delete of a stored slug answers 200 and removes that article
\* and no other, so that no article of the slug is left (and a second delete
\* is again the first case).
TheoremC7 ==
  [][\A p \in Procs, body \in DeleteBodies :
       Delete(p, "secret", body) =>
         LET hit == {r \in articles : r.slug = body.slug}
         IN  IF hit = {}
             THEN resp'.code = 404 /\ articles' = articles
             ELSE /\ resp'.code = 200
                  /\ Cardinality(hit) = 1
                  /\ articles' = articles \ hit
                  /\ \A r \in articles' : r.slug # body.slug]_vars

\* a delete answered 404 after an earlier delete removed an article, and
\* another article is still stored
WitnessC7 ==
  /\ resp.op = "delete" /\ resp.code = 404
  /\ articles # {}
  /\ nextId > Cardinality(articles) + 1

\* C8: get(slug) answers 200 with the article exactly when an article of that
\* slug is stored with status "published", and 404 otherwise; every article a
\* list response holds is stored with status "published".
TheoremC8 ==
  [][\A p \in Procs :
       /\ \A slug \in Slugs :
            Get(p, slug) =>
              IF \E r \in articles : r.slug = slug /\ r.status = "published"
              THEN /\ resp'.code = 200
                   /\ Len(resp'.data) = 1
                   /\ resp'.data[1] \in articles
                   /\ resp'.data[1].slug = slug
                   /\ resp'.data[1].status = "published"
              ELSE resp'.code = 404 /\ resp'.data = <<>>
       /\ (pc[p] = "list_count" /\ pc'[p] = "idle" /\ resp'.code = 200) =>
            \A i \in DOMAIN resp'.data :
              \E r \in articles :
                r.id = resp'.data[i].id /\ r.status = "published"]_vars

\* get answered 404 while every slug is stored, one of the articles having
\* been published and updated back to draft
WitnessC8 ==
  /\ resp.op = "get" /\ resp.code = 404
  /\ \A s \in Slugs : \E r \in articles : r.slug = s /\ r.status # "published"
  /\ \E r \in articles : r.status = "draft" /\ clearedAt[r.id] # NullTime

\* C9: every list response echoes page >= 1 and size >= 1, holds at most size
\* articles, taken from offset (page - 1) * size of the published articles
\* that match the category, with total_items their number and total_pages =
\* ceil(total_items / size).
ClaimC9 ==
  (resp.op = "list" /\ resp.code = 200) =>
    LET pg == resp.pagination
        match == PublishedRows(articles, pg.category)
    IN  /\ pg.page >= 1
        /\ pg.size >= 1
        /\ Len(resp.data) <= pg.size
        /\ pg.total_items = Cardinality(match)
        /\ pg.total_pages = MathCeilDiv(pg.total_items, pg.size)
        /\ \E ord \in OrderedByPublishedAt(match) :
             resp.data = LimitOffset([i \in DOMAIN ord |-> ListColumns(ord[i])],
                                     pg.size, (pg.page - 1) * pg.size)

\* C10: whenever a storage call of a handler fails, the handler answers with
\* the JSON envelope, success false, and status 500 (or 409).
ClaimC10 ==
  [][StorageFails =>
       (resp'.envelope /\ ~resp'.success /\ resp'.code \in {500, 409})]_vars

\* the header is absent or differs from the server-held secret
BadKey(header) == header = Undefined \/ header # env.WEBAPP_APIKEY

\* C11: an admin request (create, update, delete) whose X-API-Key header is
\* absent or differs from the server-held secret, the unset secret included,
\* is answered 401 and nothing else: no step of a create, update or delete
\* handler is taken for it, and the 401 leaves the article table unchanged.
TheoremC11 ==
  [][\A p \in {1}, h \in Headers :
       BadKey(h) =>
         /\ \A body \in PostBodies :
              ~PostInvalid(p, h, body) /\ ~Post(p, h, body)
         /\ \A body \in PutBodies :
              /\ ~PutNoSlug(p, h, body)
              /\ ~PutNotFound(p, h, body)
              /\ ~PutRead(p, h, body)
         /\ \A body \in DeleteBodies :
              ~DeleteNoSlug(p, h, body) /\ ~Delete(p, h, body)
         /\ \A op \in {"post", "put", "delete"} :
              /\ pc[p] = "idle" => ENABLED Unauthorized(p, op, h)
              /\ Unauthorized(p, op, h) =>
                   /\ resp' = Json(op, 401, Undefined, <<>>, NoPagination)
                   /\ articles' = articles]_vars

\* a delete with a wrong key was answered 401 while articles are stored
WitnessC11 ==
  /\ resp.op = "delete"
  /\ resp.code = 401
  /\ env.WEBAPP_APIKEY = "secret"
  /\ \E r \in articles : r.slug = "a"

\* what the excerpt of a content has to be
ExcerptContract(content, excerpt) ==
  /\ (excerpt = NullText) <=> (content \in {UndefinedText, NullText, <<>>})
  /\ content \notin {UndefinedText, NullText, <<>>} =>
       LET cleaned == Trim(SelectSeq(content,
                        LAMBDA ch : ch \notin {"#", "*", "-", ">", "[", "]", "\n"}))
           cut == SubSeq(cleaned, 1, Min({Len(cleaned), 150}))
       IN  /\ Len(excerpt) <= 153
           /\ Len(cleaned) > 150 => excerpt = cut \o <<".", ".", ".">>
           /\ Len(cleaned) <= 150 => excerpt = cleaned

\* C12: createExcerpt returns absent exactly when content is absent or the
\* empty string; for any other string it returns the text without '#', '*',
\* '-', '>', '[', ']' and newlines, trimmed, cut to its first 150 characters,
\* with "..." appended exactly when the cleaned text is longer than 150
\* characters, so it is never longer than 153 characters.  Checked on every
\* excerpt a create stored and every excerpt an update computed.
TheoremC12 ==
  /\ \A r \in articles :
       r.excerpt = createExcerpt(r.content)
         /\ ExcerptContract(r.content, r.excerpt)
  /\ \A p \in Procs :
       (pc[p] = "put_write" /\ "content" \in DOMAIN loc[p].sets) =>
         ExcerptContract(loc[p].sets.content, loc[p].sets.excerpt)

\* a stored excerpt that was cut at 150 characters and marked with "..."
WitnessC12 ==
  \E r \in articles :
    /\ Len(r.content) > 153
    /\ Len(r.excerpt) = 153
    /\ SubSeq(r.excerpt, 151, 153) = <<".", ".", ".">>

\* C13: when a delete of the slug has taken effect between an update's read
\* of the existing article and its write (no article of that slug is stored
\* when the write runs), the update answers 404, not success, and the write
\* recreates nothing: no article of that slug exists afterwards.
TheoremC13 ==
  [][\A p \in Procs :
       (PutCompletes(p) /\ ~\E r \in articles : r.slug = loc[p].slug) =>
         /\ resp'.op = "put"
         /\ resp'.code = 404
         /\ ~resp'.success
         /\ articles' = articles
         /\ ~\E r \in articles' : r.slug = loc[p].slug]_vars

\* an update has read its article and awaits its write, and the other
\* client's delete of that slug has just removed the article
WitnessC13 ==
  \E p \in Procs :
    /\ pc[p] = "put_write"
    /\ resp.op = "delete"
    /\ resp.code = 200
    /\ resp.slug = loc[p].slug
    /\ ~\E r \in articles : r.slug = loc[p].slug

\* C14: when two updates of one slug interleave, an update whose request
\* carries no status leaves the stored status of every article as it was
\* when its write ran.
ClaimC14 ==
  [][\A p \in Procs :
       (PutCompletes(p) /\ loc[p].body.status = Undefined) =>
         \A r \in articles : \A q \in articles' :
           q.id = r.id => q.status = r.status]_vars

====
